---- MODULE Spec2Model ----
(***************************************************************************)
(* Model of the geometry primitives of apelletant/geo:                     *)
(*   r1::Interval  (src/r1/src/lib.rs)   closed 1D interval [lo, hi]        *)
(*   r2::Rect      (src/r2/src/rect.rs)  pair of Intervals (x, y)           *)
(*   r2::Point     (src/r2/src/point.rs) pair of coordinates (x, y)         *)
(*   r3::Vector    (src/r3/src/vector.rs) triple of coordinates (x, y, z)   *)
(*                                                                         *)
(* Every operation of the library is a pure function of its operands, so   *)
(* each is an operator, and the specifications apply the operators to      *)
(* operands drawn from bounded sets.  f64 coordinates are modelled by      *)
(* integers: the operations below only compare, add, subtract, multiply    *)
(* and halve their operands, and f64 does all of that exactly on small     *)
(* integers (halving is applied to even values only).  Vector::orhto is    *)
(* modelled up to its call of normalize().                                 *)
(*                                                                         *)
(* Five specifications:                                                    *)
(*   SpecInterval  one Interval operation applied to arbitrary operands     *)
(*   SpecApprox    Interval::approx_equal on a grid of step EPSILON / 2     *)
(*   SpecRect      one Rect operation applied to arbitrary operands         *)
(*   Spec          the Rects a caller can reach through the public          *)
(*                 constructors and operations (two registers)              *)
(*   SpecVector    one r3::Vector operation (src/r3/src/vector.rs) applied  *)
(*                 to arbitrary operands                                    *)
(***************************************************************************)
EXTENDS Integers, Sequences, FiniteSets, TLC

VARIABLES
    op,     \* name of the operation applied last ("init" before any)
    i,      \* Interval operand: the receiver (self)
    oi,     \* Interval operand: the argument (oi / other)
    p,      \* f64 operand: point or margin
    ires,   \* Interval result of the last operation
    bres,   \* bool result of the last operation
    r,      \* Rect operand: the receiver (self)
    ro,     \* Rect operand: the argument
    pts,    \* slice of Points given to rect_from_points
    pt,     \* Point operand: point, margin or center
    sz,     \* Point operand: size given to rect_from_center_size
    rres,   \* Rect result of the last operation
    reg,    \* Spec: the two Rects the caller holds, reg[1] and reg[2]
    tgt,    \* Spec: the register the last operation wrote
    fres,   \* f64 result of the last operation, when it is finite
    finf,   \* whether the f64 result of the last operation is +infinity
    va,     \* Vector operand: the receiver (self)
    vb,     \* Vector operand: the argument (v)
    vres,   \* Vector result of the last operation
    vres2,  \* Vector result of the same operation on the negated receiver
    nres,   \* i64 result of the last operation
    axres,  \* Axis result of the last operation
    vbool   \* bool result of the last Vector operation

vars == <<op, i, oi, p, ires, bres, r, ro, pts, pt, sz, rres, reg, tgt,
          fres, finf, va, vb, vres, vres2, nres, axres, vbool>>

intervalVars == <<i, oi, p, ires, bres>>
rectVars == <<r, ro, pts, pt, sz, rres>>
regVars == <<reg, tgt>>
floatVars == <<fres, finf>>
vecVars == <<va, vb, vres, vres2, nres, axres, vbool>>

----------------------------------------------------------------------------
(* Bounds of the model *)

\* SpecInterval: endpoints and points are drawn from -MaxCoord .. MaxCoord
MaxCoord == 2
\* SpecApprox: endpoints are drawn from 0 .. MaxGrid grid steps
MaxGrid == 5
\* SpecRect: endpoints of Rect operands are drawn from 0 .. MaxRect
MaxRect == 2
\* margins are drawn from -MaxMargin .. MaxMargin
MaxMargin == 2
\* rect_from_points is given slices of at most MaxLen points,
\* with coordinates in 0 .. MaxPt
MaxLen == 3
MaxPt == 1
\* Spec keeps the coordinates of the Rects it holds within 0 .. MaxReach
MaxReach == 1
\* Spec gives rect_from_points slices of at most MaxReachLen points
MaxReachLen == 1
\* SpecVector: components are drawn from -MaxVec .. MaxVec
MaxVec == 2
\* SpecVector: the operands of cmp have components in -MaxCmp .. MaxCmp
MaxCmp == 1
\* SpecVector: the operands of approx_equal have components in
\* 0 .. MaxVecGrid grid steps
MaxVecGrid == 2

Vals == (0 - MaxCoord)..MaxCoord
GridVals == 0..MaxGrid
RectVals == 0..MaxRect
PtVals == 0..MaxPt
ReachVals == 0..MaxReach
Margins == (0 - MaxMargin)..MaxMargin

----------------------------------------------------------------------------
(* f64 helpers *)

\* f64::max
Max(a, b) == IF a >= b THEN a ELSE b

\* f64::min
Min(a, b) == IF a <= b THEN a ELSE b

\* f64::abs
Abs(a) == IF a < 0 THEN 0 - a ELSE a

----------------------------------------------------------------------------
(* r1::Interval *)

\* struct Interval { lo: f64, hi: f64 }: any pair, lo > hi included
Interval == [lo : Vals, hi : Vals]

empty_interval == [lo |-> 1, hi |-> 0]

interval_from_point(q) == [lo |-> q, hi |-> q]

\* EPSILON = 1e-15, in grid steps of SpecApprox (one step = EPSILON / 2)
EPSILON == 2

Interval_is_empty(self) == self.lo > self.hi

Interval_equal(self, o) ==
    self = o \/ (Interval_is_empty(self) /\ Interval_is_empty(o))

Interval_length(self) == self.hi - self.lo

Interval_contains(self, q) == self.lo <= q /\ q <= self.hi

Interval_contains_interval(self, o) ==
    IF Interval_is_empty(o) THEN TRUE
    ELSE self.lo <= o.lo /\ o.hi <= self.hi

\* intersects without the emptiness test of either branch
intersects_unguarded(self, o) ==
    IF self.lo <= o.lo
    THEN o.lo <= self.hi
    ELSE self.lo <= o.hi

Interval_intersects(self, o) ==
    IF self.lo <= o.lo
    THEN o.lo <= self.hi /\ o.lo <= o.hi
    ELSE self.lo <= o.hi /\ self.lo <= self.hi

\* interior_intersects with `oi.lo < oi.hi` as its last test
interior_intersects_strict(self, o) ==
    o.lo < self.hi /\ self.lo < o.hi /\ self.lo < self.hi /\ o.lo < o.hi

Interval_interior_intersects(self, o) ==
    o.lo < self.hi /\ self.lo < o.hi /\ self.lo < self.hi /\ o.lo <= o.hi

\* intersection with max applied to both bounds
intersection_max_max(self, o) ==
    [lo |-> Max(self.lo, o.lo), hi |-> Max(self.hi, o.hi)]

Interval_intersection(self, o) ==
    [lo |-> Max(self.lo, o.lo), hi |-> Min(self.hi, o.hi)]

\* The three struct expressions of the body are expression statements
\* (each is followed by ';' inside its block): their values are dropped
\* and control falls through to the final `return self`.
Interval_add_point(self, q) == self

\* clamp_point with max and min exchanged
clamp_point_swapped(self, q) == Min(self.lo, Max(self.hi, q))

Interval_clamp_point(self, q) == Max(self.lo, Min(self.hi, q))

Interval_expanded(self, margin) ==
    IF Interval_is_empty(self) THEN self
    ELSE [lo |-> self.lo - margin, hi |-> self.hi + margin]

\* union without the two early returns
union_unguarded(self, other) ==
    [lo |-> Min(self.lo, other.lo), hi |-> Max(self.hi, other.hi)]

Interval_union(self, other) ==
    IF Interval_is_empty(self) THEN other
    ELSE IF Interval_is_empty(other) THEN self
    ELSE [lo |-> Min(self.lo, other.lo), hi |-> Max(self.hi, other.hi)]

\* approx_equal with `<` for every `<=`
approx_equal_strict(self, other) ==
    IF Interval_is_empty(self) THEN Interval_length(other) < 2 * EPSILON
    ELSE IF Interval_is_empty(other) THEN Interval_length(self) < 2 * EPSILON
    ELSE Abs(other.lo - self.lo) < EPSILON /\ Abs(other.hi - self.hi) < EPSILON

Interval_approx_equal(self, other) ==
    IF Interval_is_empty(self) THEN Interval_length(other) <= 2 * EPSILON
    ELSE IF Interval_is_empty(other) THEN Interval_length(self) <= 2 * EPSILON
    ELSE Abs(other.lo - self.lo) <= EPSILON /\ Abs(other.hi - self.hi) <= EPSILON

\* an f64 result: a finite value, or std::f64::INFINITY
Finite(v) == [inf |-> FALSE, val |-> v]
INFINITY == [inf |-> TRUE, val |-> 0]

\* directed_hausdorff_distance without `zero.max(...)`
hausdorff_unclamped(self, other) ==
    IF Interval_is_empty(self) THEN Finite(0)
    ELSE IF Interval_is_empty(other) THEN INFINITY
    ELSE Finite(Max(self.hi - other.hi, other.lo - self.lo))

Interval_directed_hausdorff_distance(self, other) ==
    IF Interval_is_empty(self) THEN Finite(0)
    ELSE IF Interval_is_empty(other) THEN INFINITY
    ELSE Finite(Max(0, Max(self.hi - other.hi, other.lo - self.lo)))

----------------------------------------------------------------------------
(* r2::Point and r2::Rect *)

\* struct Point { x: f64, y: f64 }
Point(a, b) == [x |-> a, y |-> b]

\* struct Rect { x: Interval, y: Interval }
Rect(ix, iy) == [x |-> ix, y |-> iy]

\* size / 2.0, exact on the even values it is applied to
Half(v) == v \div 2

empty_rect == Rect(empty_interval, empty_interval)

Rect_is_valid(self) == Interval_is_empty(self.x) = Interval_is_empty(self.y)

Rect_contains_point(self, q) ==
    Interval_contains(self.x, q.x) /\ Interval_contains(self.y, q.y)

Rect_add_point(self, q) ==
    Rect(Interval_add_point(self.x, q.x), Interval_add_point(self.y, q.y))

Rect_add_rect(self, o) ==
    Rect(Interval_union(self.x, o.x), Interval_union(self.y, o.y))

Rect_union(self, o) ==
    Rect(Interval_union(self.x, o.x), Interval_union(self.y, o.y))

\* expanded without the collapse to empty_rect()
expanded_raw(self, margin) ==
    Rect(Interval_expanded(self.x, margin.x), Interval_expanded(self.y, margin.y))

Rect_expanded(self, margin) ==
    LET xx == Interval_expanded(self.x, margin.x)
        yy == Interval_expanded(self.y, margin.y)
    IN  IF Interval_is_empty(xx) \/ Interval_is_empty(yy)
        THEN empty_rect
        ELSE Rect(xx, yy)

Rect_expanded_by_margin(self, margin) ==
    Rect_expanded(self, Point(margin, margin))

\* intersection that collapses only when both axes are empty
intersection_both(self, o) ==
    LET xx == Interval_intersection(self.x, o.x)
        yy == Interval_intersection(self.y, o.y)
    IN  IF Interval_is_empty(xx) /\ Interval_is_empty(yy)
        THEN empty_rect
        ELSE Rect(xx, yy)

Rect_intersection(self, o) ==
    LET xx == Interval_intersection(self.x, o.x)
        yy == Interval_intersection(self.y, o.y)
    IN  IF Interval_is_empty(xx) \/ Interval_is_empty(yy)
        THEN empty_rect
        ELSE Rect(xx, yy)

\* the loop `for point in points { r = r.add_point(*point) }`
RECURSIVE add_points(_, _)
add_points(rect, points) ==
    IF points = <<>> THEN rect
    ELSE add_points(Rect_add_point(rect, Head(points)), Tail(points))

rect_from_points(points) ==
    IF Len(points) = 0
    THEN Rect([lo |-> 0, hi |-> 0], [lo |-> 0, hi |-> 0])
    ELSE add_points(Rect([lo |-> points[1].x, hi |-> points[1].x],
                         [lo |-> points[1].y, hi |-> points[1].y]),
                    points)

\* rect_from_center_size with the bounds of iy exchanged
from_center_size_swapped(center, size) ==
    Rect([lo |-> center.x - Half(size.x), hi |-> center.x + Half(size.x)],
         [lo |-> center.y + Half(size.y), hi |-> center.y - Half(size.y)])

rect_from_center_size(center, size) ==
    Rect([lo |-> center.x - Half(size.x), hi |-> center.x + Half(size.x)],
         [lo |-> center.y - Half(size.y), hi |-> center.y + Half(size.y)])

----------------------------------------------------------------------------
(* r3::Vector *)

\* struct Vector { x: f64, y: f64, z: f64 }
Vector(a, b, c) == [x |-> a, y |-> b, z |-> c]

\* `let epsilon = 1e-16` of approx_equal, in grid steps (one step is
\* epsilon / 2)
Vector_epsilon == 2

\* Only the x difference goes through abs(); the y and z differences are
\* compared signed (`v.Y` read as the field y).
Vector_approx_equal(self, v) ==
    /\ Abs(self.x - v.x) < Vector_epsilon
    /\ (self.y - v.y) < Vector_epsilon
    /\ (self.z - v.z) < Vector_epsilon

Vector_mul(self, m) == Vector(m * self.x, m * self.y, m * self.z)

Vector_abs(self) == Vector(Abs(self.x), Abs(self.y), Abs(self.z))

Vector_dot(self, v) == self.x * v.x + self.y * v.y + self.z * v.z

Vector_cross(self, v) ==
    Vector(self.y * v.z - self.z * v.y,
           self.z * v.x - self.x * v.z,
           self.x * v.y - self.y * v.x)

\* largest_component comparing the components without abs()
largest_component_signed(self) ==
    IF self.x > self.y
    THEN (IF self.x > self.z THEN "xAxis" ELSE "zAxis")
    ELSE (IF self.y > self.z THEN "yAxis" ELSE "zAxis")

Vector_largest_component(self) ==
    LET v == Vector_abs(self)
    IN  IF v.x > v.y
        THEN (IF v.x > v.z THEN "xAxis" ELSE "zAxis")
        ELSE (IF v.y > v.z THEN "yAxis" ELSE "zAxis")

\* The inner test reads `t.x < t.z`; no `t` is declared, and `v`, the
\* abs() of self, is the only Vector in scope: t is read as v.
Vector_smallest_component(self) ==
    LET v == Vector_abs(self)
    IN  IF v.x < v.y
        THEN (IF v.x < v.z THEN "xAxis" ELSE "zAxis")
        ELSE (IF v.y < v.z THEN "yAxis" ELSE "zAxis")

\* The Vector that orhto passes to cross.  `let mut v: Vector;` leaves v
\* uninitialized: g holds whatever its x and y fields contain.  The arms of
\* the match are `xAxis => v.z = 1, yAxis => v.x = 1, _ => v.y = 1`; no
\* variant of Axes is in scope under the bare name xAxis, so the first
\* pattern is a binding that matches every axis and only `v.z = 1` runs.
orhto_basis(self, g) == Vector(g.x, g.y, 1)

\* self.cross(v), the value orhto hands to normalize()
orhto_cross(self, g) == Vector_cross(self, orhto_basis(self, g))

\* cmp without the comparison of z
cmp_x_y(self, v) ==
    IF self.x < v.x THEN 0 - 1
    ELSE IF self.x > v.x THEN 1
    ELSE IF self.y < v.y THEN 0 - 1
    ELSE IF self.y > v.y THEN 1
    ELSE 0

Vector_cmp(self, v) ==
    IF self.x < v.x THEN 0 - 1
    ELSE IF self.x > v.x THEN 1
    ELSE IF self.y < v.y THEN 0 - 1
    ELSE IF self.y > v.y THEN 1
    ELSE IF self.z < v.z THEN 0 - 1
    ELSE IF self.z > v.z THEN 1
    ELSE 0

----------------------------------------------------------------------------
(* Operand sets and idle values *)

NoInterval == [lo |-> 0, hi |-> 0]
NoPoint == Point(0, 0)
NoRect == Rect(NoInterval, NoInterval)

IntervalIdle ==
    i = NoInterval /\ oi = NoInterval /\ p = 0 /\ ires = NoInterval /\ bres = FALSE

RectIdle ==
    /\ r = NoRect /\ ro = NoRect /\ pts = <<>>
    /\ pt = NoPoint /\ sz = NoPoint /\ rres = NoRect

RegIdle == reg = <<NoRect, NoRect>> /\ tgt = 1

FloatIdle == fres = 0 /\ finf = FALSE

NoVector == [x |-> 0, y |-> 0, z |-> 0]

VectorIdle ==
    /\ va = NoVector /\ vb = NoVector /\ vres = NoVector /\ vres2 = NoVector
    /\ nres = 0 /\ axres = "none" /\ vbool = FALSE

\* slices of at most n elements of S
SeqsUpTo(S, n) == UNION {[1..k -> S] : k \in 0..n}

----------------------------------------------------------------------------
(* SpecInterval: one Interval operation on arbitrary operands *)

InitInterval ==
    /\ op = "init"
    /\ i \in Interval /\ oi \in Interval /\ p \in Vals
    /\ ires = NoInterval /\ bres = FALSE
    /\ RectIdle /\ RegIdle /\ FloatIdle /\ VectorIdle

IntervalResult(name, iv, b) ==
    /\ op = "init"
    /\ op' = name
    /\ ires' = iv
    /\ bres' = b
    /\ UNCHANGED <<i, oi, p, rectVars, regVars, floatVars, vecVars>>

\* an operation that returns f64: d.inf says whether it is +infinity,
\* d.val is its value otherwise
FloatResult(name, d) ==
    /\ op = "init"
    /\ op' = name
    /\ fres' = d.val
    /\ finf' = d.inf
    /\ UNCHANGED <<i, oi, p, ires, bres, rectVars, regVars, vecVars>>

ClampPoint == FloatResult("clamp_point", Finite(Interval_clamp_point(i, p)))

DirectedHausdorffDistance ==
    FloatResult("directed_hausdorff_distance",
                Interval_directed_hausdorff_distance(i, oi))

AddPoint == IntervalResult("add_point", Interval_add_point(i, p), FALSE)

Intersects == IntervalResult("intersects", NoInterval, Interval_intersects(i, oi))

InteriorIntersects ==
    IntervalResult("interior_intersects", NoInterval,
                   Interval_interior_intersects(i, oi))

Intersection ==
    IntervalResult("intersection", Interval_intersection(i, oi), FALSE)

Expanded == IntervalResult("expanded", Interval_expanded(i, p), FALSE)

Union == IntervalResult("union", Interval_union(i, oi), FALSE)

NextInterval ==
    \/ AddPoint
    \/ Intersects
    \/ InteriorIntersects
    \/ Intersection
    \/ Expanded
    \/ Union
    \/ ClampPoint
    \/ DirectedHausdorffDistance

SpecInterval == InitInterval /\ [][NextInterval]_vars

----------------------------------------------------------------------------
(* SpecApprox: Interval::approx_equal, endpoints on a grid of step EPSILON/2 *)

GridInterval == [lo : GridVals, hi : GridVals]

InitApprox ==
    /\ op = "init"
    /\ i \in GridInterval /\ oi \in GridInterval
    /\ p = 0 /\ ires = NoInterval /\ bres = FALSE
    /\ RectIdle /\ RegIdle /\ FloatIdle /\ VectorIdle

ApproxEqual ==
    /\ op = "init"
    /\ op' = "approx_equal"
    /\ bres' = Interval_approx_equal(i, oi)
    /\ UNCHANGED <<i, oi, p, ires, rectVars, regVars, floatVars, vecVars>>

NextApprox == ApproxEqual

SpecApprox == InitApprox /\ [][NextApprox]_vars

----------------------------------------------------------------------------
(* SpecRect: one Rect operation on arbitrary operands, invalid Rects included *)

RectInterval == [lo : RectVals, hi : RectVals]

\* every Rect a caller can write down field by field
AnyRect == [x : RectInterval, y : RectInterval]

PtPoints == [x : PtVals, y : PtVals]
RectPoints == [x : RectVals, y : RectVals]
MarginPoints == [x : Margins, y : Margins]
\* sizes are whole multiples of 2, so that size / 2.0 is an integer
SizePoints == [x : {2 * k : k \in Margins}, y : {2 * k : k \in Margins}]

InitRect ==
    /\ op = "init"
    /\ IntervalIdle /\ RectIdle /\ RegIdle /\ FloatIdle /\ VectorIdle

RectResult(name, a, b, points, q, size, res) ==
    /\ op' = name
    /\ r' = a /\ ro' = b /\ pts' = points /\ pt' = q /\ sz' = size
    /\ rres' = res
    /\ UNCHANGED <<intervalVars, regVars, floatVars, vecVars>>

RectFromPoints ==
    /\ op = "init"
    /\ \E points \in SeqsUpTo(PtPoints, MaxLen) :
        RectResult("rect_from_points", NoRect, NoRect, points, NoPoint, NoPoint,
                   rect_from_points(points))

RectFromCenterSize ==
    /\ op = "init"
    /\ \E center \in RectPoints, size \in SizePoints :
        RectResult("rect_from_center_size", NoRect, NoRect, <<>>, center, size,
                   rect_from_center_size(center, size))

RectAddPoint ==
    /\ op = "init"
    /\ \E a \in AnyRect, q \in RectPoints :
        RectResult("add_point", a, NoRect, <<>>, q, NoPoint, Rect_add_point(a, q))

RectAddRect ==
    /\ op = "init"
    /\ \E a \in AnyRect, b \in AnyRect :
        RectResult("add_rect", a, b, <<>>, NoPoint, NoPoint, Rect_add_rect(a, b))

RectUnion ==
    /\ op = "init"
    /\ \E a \in AnyRect, b \in AnyRect :
        RectResult("union", a, b, <<>>, NoPoint, NoPoint, Rect_union(a, b))

RectIntersection ==
    /\ op = "init"
    /\ \E a \in AnyRect, b \in AnyRect :
        RectResult("intersection", a, b, <<>>, NoPoint, NoPoint,
                   Rect_intersection(a, b))

RectExpanded ==
    /\ op = "init"
    /\ \E a \in AnyRect, m \in MarginPoints :
        RectResult("expanded", a, NoRect, <<>>, m, NoPoint, Rect_expanded(a, m))

RectExpandedByMargin ==
    /\ op = "init"
    /\ \E a \in AnyRect, m \in Margins :
        RectResult("expanded_by_margin", a, NoRect, <<>>, Point(m, m), NoPoint,
                   Rect_expanded_by_margin(a, m))

NextRect ==
    \/ RectFromPoints
    \/ RectFromCenterSize
    \/ RectAddPoint
    \/ RectAddRect
    \/ RectUnion
    \/ RectIntersection
    \/ RectExpanded
    \/ RectExpandedByMargin

SpecRect == InitRect /\ [][NextRect]_vars

----------------------------------------------------------------------------
(* Spec: the Rects a caller reaches from the public constructors by the     *)
(* public operations.  The caller holds two Rects; every operation takes    *)
(* its Rect operands from the registers and writes its result to one.       *)

ReachPoints == [x : ReachVals, y : ReachVals]
\* non-negative sizes, whole multiples of 2
ReachSizes == [x : {2 * k : k \in ReachVals}, y : {2 * k : k \in ReachVals}]

InReach(iv) == iv.lo \in ReachVals /\ iv.hi \in ReachVals

\* the bound on the coordinates the registers hold
RectInReach(rc) == InReach(rc.x) /\ InReach(rc.y)

Init ==
    /\ op = "empty_rect"
    /\ reg = <<empty_rect, empty_rect>>
    /\ tgt = 1
    /\ IntervalIdle /\ RectIdle /\ FloatIdle /\ VectorIdle

Store(name, k, res) ==
    /\ RectInReach(res)
    /\ op' = name
    /\ reg' = [reg EXCEPT ![k] = res]
    /\ tgt' = k
    /\ UNCHANGED <<intervalVars, rectVars, floatVars, vecVars>>

DoEmptyRect == \E k \in 1..2 : Store("empty_rect", k, empty_rect)

DoFromPoints ==
    \E k \in 1..2, points \in SeqsUpTo(ReachPoints, MaxReachLen) :
        Store("rect_from_points", k, rect_from_points(points))

DoFromCenterSize ==
    \E k \in 1..2, center \in ReachPoints, size \in ReachSizes :
        Store("rect_from_center_size", k, rect_from_center_size(center, size))

DoAddPoint ==
    \E k \in 1..2, q \in ReachPoints :
        Store("add_point", k, Rect_add_point(reg[k], q))

DoAddRect ==
    \E k \in 1..2, j \in 1..2 :
        Store("add_rect", k, Rect_add_rect(reg[k], reg[j]))

DoUnion ==
    \E k \in 1..2, j \in 1..2 :
        Store("union", k, Rect_union(reg[k], reg[j]))

DoIntersection ==
    \E k \in 1..2, j \in 1..2 :
        Store("intersection", k, Rect_intersection(reg[k], reg[j]))

DoExpanded ==
    \E k \in 1..2, m \in MarginPoints :
        Store("expanded", k, Rect_expanded(reg[k], m))

DoExpandedByMargin ==
    \E k \in 1..2, m \in Margins :
        Store("expanded_by_margin", k, Rect_expanded_by_margin(reg[k], m))

Next ==
    \/ DoEmptyRect
    \/ DoFromPoints
    \/ DoFromCenterSize
    \/ DoAddPoint
    \/ DoAddRect
    \/ DoUnion
    \/ DoIntersection
    \/ DoExpanded
    \/ DoExpandedByMargin

Spec == Init /\ [][Next]_vars

----------------------------------------------------------------------------
(* SpecVector: one Vector operation on arbitrary operands *)

VecVals == (0 - MaxVec)..MaxVec
AnyVector == [x : VecVals, y : VecVals, z : VecVals]

CmpVals == (0 - MaxCmp)..MaxCmp
CmpVector == [x : CmpVals, y : CmpVals, z : CmpVals]

\* components in steps of epsilon / 2
VecGridVals == 0..MaxVecGrid
GridVector == [x : VecGridVals, y : VecGridVals, z : VecGridVals]

\* what the two unassigned fields of an uninitialized Vector may hold
Garbage == [x : {0 - 1, 0, 1}, y : {0 - 1, 0, 1}]

InitVector ==
    /\ op = "init"
    /\ IntervalIdle /\ RectIdle /\ RegIdle /\ FloatIdle /\ VectorIdle

VectorResult(name, a, b, v1, v2, n, ax, bl) ==
    /\ op' = name
    /\ va' = a /\ vb' = b
    /\ vres' = v1 /\ vres2' = v2
    /\ nres' = n /\ axres' = ax /\ vbool' = bl
    /\ UNCHANGED <<intervalVars, rectVars, regVars, floatVars>>

VecCmp ==
    /\ op = "init"
    /\ \E a \in CmpVector, b \in CmpVector :
        VectorResult("cmp", a, b, NoVector, NoVector, Vector_cmp(a, b),
                     "none", FALSE)

VecApproxEqual ==
    /\ op = "init"
    /\ \E a \in GridVector, b \in GridVector :
        VectorResult("vector_approx_equal", a, b, NoVector, NoVector, 0,
                     "none", Vector_approx_equal(a, b))

VecLargestComponent ==
    /\ op = "init"
    /\ \E a \in AnyVector :
        VectorResult("largest_component", a, NoVector, NoVector, NoVector, 0,
                     Vector_largest_component(a), FALSE)

VecSmallestComponent ==
    /\ op = "init"
    /\ \E a \in AnyVector :
        VectorResult("smallest_component", a, NoVector, NoVector, NoVector, 0,
                     Vector_smallest_component(a), FALSE)

\* orhto on a and on -a, up to the call of normalize(): vb is the Vector
\* passed to cross for a, vres the cross product for a, vres2 the cross
\* product for -a.  Each call has an uninitialized Vector of its own.
VecOrtho ==
    /\ op = "init"
    /\ \E a \in AnyVector, g1 \in Garbage, g2 \in Garbage :
        VectorResult("ortho", a, orhto_basis(a, g1),
                     orhto_cross(a, g1),
                     orhto_cross(Vector_mul(a, 0 - 1), g2),
                     0, "none", FALSE)

NextVector ==
    \/ VecCmp
    \/ VecApproxEqual
    \/ VecLargestComponent
    \/ VecSmallestComponent
    \/ VecOrtho

SpecVector == InitVector /\ [][NextVector]_vars

----------------------------------------------------------------------------
(* Properties *)

IsEmpty(iv) == iv.lo > iv.hi

SetMin(S) == CHOOSE m \in S : \A n \in S : m <= n
SetMax(S) == CHOOSE m \in S : \A n \in S : m >= n

\* C1: for every Interval i (empty or not) and point p, i.add_point(p)
\* contains p and is [p,p] when i is empty, i with lo lowered to p when
\* p < i.lo, i with hi raised to p when p > i.hi, and i otherwise.
C1_AddPointCovers ==
    op = "add_point" =>
        /\ ires.lo <= p /\ p <= ires.hi
        /\ ires = IF IsEmpty(i) THEN [lo |-> p, hi |-> p]
                  ELSE IF p < i.lo THEN [lo |-> p, hi |-> i.hi]
                  ELSE IF p > i.hi THEN [lo |-> i.lo, hi |-> p]
                  ELSE i

\* C2: for every non-empty list of points, rect_from_points(points) is the
\* bounding box [min x, max x] by [min y, max y] of the points, and so
\* contains every point of the list.
C2_FromPointsBoundingBox ==
    (op = "rect_from_points" /\ Len(pts) > 0) =>
        LET xs == {pts[k].x : k \in 1..Len(pts)}
            ys == {pts[k].y : k \in 1..Len(pts)}
        IN  /\ rres = [x |-> [lo |-> SetMin(xs), hi |-> SetMax(xs)],
                       y |-> [lo |-> SetMin(ys), hi |-> SetMax(ys)]]
            /\ \A k \in 1..Len(pts) :
                   /\ rres.x.lo <= pts[k].x /\ pts[k].x <= rres.x.hi
                   /\ rres.y.lo <= pts[k].y /\ pts[k].y <= rres.y.hi

\* C3: every Rect reached from empty_rect(), rect_from_points(points) and
\* rect_from_center_size(center, size) with size >= 0 by add_point, add_rect,
\* union, intersection, expanded and expanded_by_margin is valid: its x
\* interval is empty exactly when its y interval is.
C3_ReachableRectsValid ==
    \A k \in 1..2 : IsEmpty(reg[k].x) = IsEmpty(reg[k].y)

\* an intersection emptied a register while the other register holds a
\* non-empty Rect
C3_Witness ==
    /\ op = "intersection"
    /\ reg[tgt] = empty_rect
    /\ ~IsEmpty(reg[3 - tgt].x) /\ ~IsEmpty(reg[3 - tgt].y)

\* C4 (as claimed): rect_from_center_size(center, size) is valid for every
\* center and every size, negative size components included.
C4_FromCenterSizeAlwaysValid ==
    op = "rect_from_center_size" => IsEmpty(rres.x) = IsEmpty(rres.y)

\* C4 (amended): rect_from_center_size(center, size) is valid, and non-empty
\* on both axes, for every center and every size whose two components are
\* non-negative.
C4_FromCenterSizeValidForNonNegativeSize ==
    (op = "rect_from_center_size" /\ sz.x >= 0 /\ sz.y >= 0) =>
        /\ IsEmpty(rres.x) = IsEmpty(rres.y)
        /\ ~IsEmpty(rres.x)

C4_Witness ==
    /\ op = "rect_from_center_size"
    /\ sz.x > 0 /\ sz.y > 0
    /\ rres.x.hi - rres.x.lo = sz.x
    /\ rres.y.hi - rres.y.lo = sz.y

\* C5: for all Intervals i and j, every lo > hi pair included,
\* i.intersects(j) = j.intersects(i); it is false when i or j is empty and,
\* for non-empty i and j, true exactly when max(i.lo, j.lo) <= min(i.hi, j.hi).
C5_IntersectsSymmetricClosedOverlap ==
    op = "intersects" =>
        /\ bres = Interval_intersects(oi, i)
        /\ (IsEmpty(i) \/ IsEmpty(oi)) => ~bres
        /\ (~IsEmpty(i) /\ ~IsEmpty(oi)) =>
               (bres <=> Max(i.lo, oi.lo) <= Min(i.hi, oi.hi))

\* the argument is empty and its lo lies inside the non-empty receiver
C5_Witness ==
    /\ op = "intersects"
    /\ IsEmpty(oi) /\ ~IsEmpty(i)
    /\ i.lo <= oi.lo /\ oi.lo <= i.hi
    /\ ~bres

\* C6: an empty Interval, canonical or not, is the identity of union on
\* either side: i.union(e).equal(i) and e.union(i).equal(i); the union of two
\* empty intervals is empty; the union of two non-empty intervals is
\* [min(lo, other.lo), max(hi, other.hi)].
C6_UnionEmptyIdentity ==
    op = "union" =>
        /\ IsEmpty(oi) => (ires = i \/ (IsEmpty(ires) /\ IsEmpty(i)))
        /\ IsEmpty(i) => (ires = oi \/ (IsEmpty(ires) /\ IsEmpty(oi)))
        /\ (IsEmpty(i) /\ IsEmpty(oi)) => IsEmpty(ires)
        /\ (~IsEmpty(i) /\ ~IsEmpty(oi)) =>
               ires = [lo |-> Min(i.lo, oi.lo), hi |-> Max(i.hi, oi.hi)]

\* a non-canonical empty argument whose bounds lie outside the receiver
C6_Witness ==
    /\ op = "union"
    /\ ~IsEmpty(i) /\ IsEmpty(oi) /\ oi # empty_interval
    /\ oi.hi < i.lo /\ oi.lo > i.hi
    /\ ires = i

\* C7: for all Rects r1 and r2, invalid ones included, r1.intersection(r2)
\* is the canonical empty_rect() when [max(lo), min(hi)] is empty on the x
\* axis or on the y axis, and the Rect of these two intervals otherwise; the
\* result is always valid.
C7_IntersectionCanonicalEmpty ==
    op = "intersection" =>
        LET xx == [lo |-> Max(r.x.lo, ro.x.lo), hi |-> Min(r.x.hi, ro.x.hi)]
            yy == [lo |-> Max(r.y.lo, ro.y.lo), hi |-> Min(r.y.hi, ro.y.hi)]
        IN  /\ rres = IF IsEmpty(xx) \/ IsEmpty(yy)
                      THEN [x |-> [lo |-> 1, hi |-> 0], y |-> [lo |-> 1, hi |-> 0]]
                      ELSE [x |-> xx, y |-> yy]
            /\ IsEmpty(rres.x) = IsEmpty(rres.y)

\* an invalid receiver (x empty, y not) and a non-empty argument that
\* overlaps it on y
C7_Witness ==
    /\ op = "intersection"
    /\ IsEmpty(r.x) /\ ~IsEmpty(r.y) /\ ~IsEmpty(ro.x) /\ ~IsEmpty(ro.y)
    /\ Max(r.y.lo, ro.y.lo) <= Min(r.y.hi, ro.y.hi)
    /\ rres = empty_rect

C9_InteriorIntersectsOpenOverlap ==
    op = "interior_intersects" =>
        (bres <=> /\ ~IsEmpty(i) /\ ~IsEmpty(oi)
                  /\ Max(i.lo, oi.lo) < Min(i.hi, oi.hi))

\* C9 (amended): i.interior_intersects(j) is true iff i and j are both
\* non-empty and either max(i.lo, j.lo) < min(i.hi, j.hi), or j is a single
\* point (j.lo = j.hi) lying strictly inside i (i.lo < j.lo < i.hi).
C9_InteriorIntersectsOpenOverlapOrInnerPoint ==
    op = "interior_intersects" =>
        (bres <=> /\ ~IsEmpty(i) /\ ~IsEmpty(oi)
                  /\ \/ Max(i.lo, oi.lo) < Min(i.hi, oi.hi)
                     \/ (oi.lo = oi.hi /\ i.lo < oi.lo /\ oi.lo < i.hi))

\* the argument is a single point strictly inside the receiver
C9_Witness ==
    /\ op = "interior_intersects"
    /\ oi.lo = oi.hi /\ i.lo < oi.lo /\ oi.lo < i.hi
    /\ bres

\* C10: approx_equal follows the four-row table with tolerance eps, bounds
\* inclusive: both empty -> true; self empty, other not -> other.length() <=
\* 2 eps; other empty, self not -> self.length() <= 2 eps; neither empty ->
\* |other.lo - self.lo| <= eps and |other.hi - self.hi| <= eps.  Endpoints
\* are whole multiples of eps / 2.
C10_ApproxEqualTable ==
    op = "approx_equal" =>
        /\ (IsEmpty(i) /\ IsEmpty(oi)) => bres
        /\ (IsEmpty(i) /\ ~IsEmpty(oi)) =>
               (bres <=> oi.hi - oi.lo <= 2 * EPSILON)
        /\ (~IsEmpty(i) /\ IsEmpty(oi)) =>
               (bres <=> i.hi - i.lo <= 2 * EPSILON)
        /\ (~IsEmpty(i) /\ ~IsEmpty(oi)) =>
               (bres <=> /\ Abs(oi.lo - i.lo) <= EPSILON
                         /\ Abs(oi.hi - i.hi) <= EPSILON)

\* both non-empty, lo off by exactly eps and hi by less: still equal
C10_Witness ==
    /\ op = "approx_equal"
    /\ ~IsEmpty(i) /\ ~IsEmpty(oi)
    /\ oi.lo - i.lo = EPSILON
    /\ Abs(oi.hi - i.hi) < EPSILON
    /\ bres

\* C11: for every non-empty Interval i and point p, i.clamp_point(p) is
\* max(i.lo, min(i.hi, p)): it lies in i, is p when i contains p, i.lo when
\* p < i.lo and i.hi when p > i.hi; clamping the result again leaves it
\* unchanged.
C11_ClampPointProjects ==
    (op = "clamp_point" /\ ~IsEmpty(i)) =>
        /\ ~finf
        /\ i.lo <= fres /\ fres <= i.hi
        /\ (i.lo <= p /\ p <= i.hi) => fres = p
        /\ p < i.lo => fres = i.lo
        /\ p > i.hi => fres = i.hi
        /\ Interval_clamp_point(i, fres) = fres

\* a point below a non-degenerate interval is moved up to its lo
C11_Witness ==
    /\ op = "clamp_point"
    /\ i.lo < i.hi /\ p < i.lo
    /\ fres = i.lo

\* C12: a.directed_hausdorff_distance(b) is 0 when a is empty (b empty or
\* not), +infinity when a is non-empty and b is empty, and otherwise
\* max(0, a.hi - b.hi, b.lo - a.lo); for non-empty a and b it is 0 exactly
\* when b.contains_interval(a); it is never negative.
C12_DirectedHausdorffDistance ==
    op = "directed_hausdorff_distance" =>
        /\ IsEmpty(i) => (~finf /\ fres = 0)
        /\ (~IsEmpty(i) /\ IsEmpty(oi)) => finf
        /\ (~IsEmpty(i) /\ ~IsEmpty(oi)) =>
               /\ ~finf
               /\ fres >= i.hi - oi.hi /\ fres >= oi.lo - i.lo
               /\ fres \in {0, i.hi - oi.hi, oi.lo - i.lo}
               /\ (fres = 0) <=> (oi.lo <= i.lo /\ i.hi <= oi.hi)
        /\ ~finf => fres >= 0

\* the receiver sticks out of the argument on the low side only
C12_Witness ==
    /\ op = "directed_hausdorff_distance"
    /\ ~IsEmpty(i) /\ ~IsEmpty(oi)
    /\ i.lo < oi.lo /\ i.hi < oi.hi
    /\ ~finf /\ fres = oi.lo - i.lo

\* C17: for all Intervals i and j, every empty representation included,
\* i.intersection(j) is [max(i.lo, j.lo), min(i.hi, j.hi)] as it stands (not
\* replaced by the canonical empty interval), and it is empty exactly when
\* i.intersects(j) is false; the intersection with an empty interval is
\* empty.
C17_IntersectionAgreesWithIntersects ==
    op = "intersection" =>
        /\ ires.lo = (IF i.lo >= oi.lo THEN i.lo ELSE oi.lo)
        /\ ires.hi = (IF i.hi <= oi.hi THEN i.hi ELSE oi.hi)
        /\ IsEmpty(ires) = ~Interval_intersects(i, oi)
        /\ (IsEmpty(i) \/ IsEmpty(oi)) => IsEmpty(ires)

\* two disjoint non-empty intervals: the result is an empty interval other
\* than the canonical one
C17_Witness ==
    /\ op = "intersection"
    /\ ~IsEmpty(i) /\ ~IsEmpty(oi)
    /\ i.hi < oi.lo
    /\ IsEmpty(ires) /\ ires # empty_interval

\* C18 (as claimed): i.interior_intersects(j) = j.interior_intersects(i) for
\* all Intervals i and j, single points and empty intervals included.
C18_InteriorIntersectsSymmetric ==
    op = "interior_intersects" => bres = Interval_interior_intersects(oi, i)

InnerPoint(pnt, iv) == pnt.lo = pnt.hi /\ iv.lo < pnt.lo /\ pnt.lo < iv.hi

\* C18 (amended): i.interior_intersects(j) = j.interior_intersects(i) unless
\* one of i, j is a single point lying strictly inside the other; then the
\* result is true with the point as argument and false with the point as
\* receiver.
C18_InteriorIntersectsSymmetricExceptInnerPoint ==
    op = "interior_intersects" =>
        /\ InnerPoint(oi, i) => (bres /\ ~Interval_interior_intersects(oi, i))
        /\ InnerPoint(i, oi) => (~bres /\ Interval_interior_intersects(oi, i))
        /\ (~InnerPoint(oi, i) /\ ~InnerPoint(i, oi)) =>
               bres = Interval_interior_intersects(oi, i)

\* the receiver is a single point strictly inside the argument
C18_Witness ==
    /\ op = "interior_intersects"
    /\ i.lo = i.hi /\ oi.lo < i.lo /\ i.lo < oi.hi
    /\ ~bres

Sign(n) == IF n < 0 THEN 0 - 1 ELSE IF n > 0 THEN 1 ELSE 0

\* the absolute value of the component of v on axis ax
AbsOn(v, ax) ==
    LET c == IF ax = "xAxis" THEN v.x ELSE IF ax = "yAxis" THEN v.y ELSE v.z
    IN  IF c < 0 THEN 0 - c ELSE c

Axes == {"xAxis", "yAxis", "zAxis"}

\* C13: cmp is a total lexicographic order on (x, y, z): the result is in
\* {-1, 0, 1}; it is the sign of the difference in the first component, in
\* the order x, y, z, in which a and b differ; it is 0 exactly when a = b;
\* cmp(a, b) = -cmp(b, a); and cmp(a, b) <= 0 with cmp(b, c) <= 0 implies
\* cmp(a, c) <= 0.
C13_CmpLexicographicOrder ==
    op = "cmp" =>
        /\ nres \in {0 - 1, 0, 1}
        /\ nres = IF va.x # vb.x THEN Sign(va.x - vb.x)
                  ELSE IF va.y # vb.y THEN Sign(va.y - vb.y)
                  ELSE Sign(va.z - vb.z)
        /\ (nres = 0) <=> (va = vb)
        /\ nres = 0 - Vector_cmp(vb, va)
        /\ \A c \in CmpVector :
               (nres <= 0 /\ Vector_cmp(vb, c) <= 0) => Vector_cmp(va, c) <= 0

\* a and b agree on x and y and differ on z
C13_Witness ==
    /\ op = "cmp"
    /\ va.x = vb.x /\ va.y = vb.y /\ va.z > vb.z
    /\ nres = 1

\* C14: a.approx_equal(b) is true exactly when |a.x - b.x|, |a.y - b.y| and
\* |a.z - b.z| are all strictly below the tolerance; so it is symmetric,
\* and a difference equal to the tolerance is not approximately equal.
C14_VectorApproxEqualAbsStrict ==
    op = "vector_approx_equal" =>
        /\ vbool <=> /\ Abs(va.x - vb.x) < Vector_epsilon
                     /\ Abs(va.y - vb.y) < Vector_epsilon
                     /\ Abs(va.z - vb.z) < Vector_epsilon
        /\ vbool = Vector_approx_equal(vb, va)

C16_OrthoBasisAndCross ==
    (op = "ortho" /\ va # NoVector) =>
        /\ vb = IF Vector_largest_component(va) = "xAxis" THEN Vector(0, 0, 1)
                ELSE IF Vector_largest_component(va) = "yAxis" THEN Vector(1, 0, 0)
                ELSE Vector(0, 1, 0)
        /\ vres # NoVector
        /\ Vector_dot(vres, va) = 0
        /\ vres2 = Vector_mul(vres, 0 - 1)

====
